---- MODULE Spec2Model ----
(***************************************************************************)
(* systemback-ng: the process lock, the backup pipeline, the restore       *)
(* orchestrator with its partition planner and bootloader installer, and   *)
(* the boot-fix orchestrator, as a state machine of command-line processes *)
(* that share one lock file, one snapshot store and one mount namespace.   *)
(*                                                                         *)
(* Every process runs one operation (core/cli.py main) and then exits.     *)
(* A step of an operation is one call to the outside world: an external    *)
(* command run through utils.run, or a file-system call.  A command can    *)
(* fail; the failure is the exception the code then propagates.            *)
(***************************************************************************)
EXTENDS Integers, Sequences, FiniteSets, TLC

\* ---------------------------------------------------------------- bounds
\* Two command-line invocations race for the lock and the mount point.
Procs == {1, 2}
NoProc == 0
\* The wall clock, in seconds, as time.strftime sees it.
MaxClock == 1
\* Number of children lsblk can report for a disk in boot-fix.
MaxChildren == 2

\* ------------------------------------------------------- program constants
\* for _ in range(10)
PollMax == 10
\* size_bytes // (1024 * 1024)
MiB == 1048576
\* --esp-mib, default=512
EspDefault == 512
\* sanitize_label: label[:40]
LabelMax == 40

VARIABLES
  op,          \* op[p]: the sub-command process p runs ("none" before it starts)
  args,        \* args[p]: its command-line arguments
  pc,          \* pc[p]: the step it is about to execute
  err,         \* err[p]: the error it is propagating ("" when none)
  log,         \* log[p]: the calls it has made, in order: <<state, call, target>>
  loc,         \* loc[p]: its local variables
  fd,          \* fd[p]: Lock.fd, the open handle of the lock file
  entered,     \* entered[p]: Lock.__enter__ has returned in p
  flockOwner,  \* the process whose handle holds the flock, or NoProc
  lockFile,    \* the content of <state_dir>/lock ("absent" before it exists)
  mtab,        \* mtab[m]: the stack of mounts on mount point m, by mounting process
  store,       \* the snapshot store: archive name -> archive and sidecar
  clock        \* the wall clock

vars == <<op, args, pc, err, log, loc, fd, entered, flockOwner, lockFile, mtab, store, clock>>

\* The mount points under /mnt/systemback-ng-root, shared by restore and boot-fix.
MountPoints == {"root", "esp", "dev", "proc", "sys", "run"}
BindMounts == <<"dev", "proc", "sys", "run">>

\* ------------------------------------------------------------ the store
\* An archive file holds the tree it was made from (a positive number), or is
\* a truncated file (0), or does not exist (-1).  A sidecar holds a digest, or
\* is an empty file the shell redirection created (0), or does not exist (-1).
NoFile == -1
Partial == 0
\* A label is a sequence of characters.  --label defaults to "auto".
Auto == <<"a", "u", "t", "o">>
NightlyRun == <<"N", "i", "g", "h", "t", "l", "y", " ", "R", "u", "n">>
\* The labels passed to backup: none, the default, one with upper case and a
\* space, one with surrounding spaces and a punctuation mark, a long one.
RawLabels == {<< >>, Auto, NightlyRun, <<" ", "n", "!", " ">>,
              [i \in 1..(LabelMax + 1) |-> "n"]}

\* str.lower
Lower(c) == IF c = "N" THEN "n" ELSE IF c = "R" THEN "r" ELSE c
RECURSIVE Strip(_)
\* str.strip: leading and trailing white space goes.
Strip(l) ==
  IF l = << >> THEN l
  ELSE IF Head(l) = " " THEN Strip(Tail(l))
  ELSE IF l[Len(l)] = " " THEN Strip(SubSeq(l, 1, Len(l) - 1))
  ELSE l
\* backup.py 24: label.strip().lower().replace(" ", "_") if label and
\* label != "auto" else "".
SafeLabel(raw) ==
  IF raw # << >> /\ raw # Auto
  THEN [i \in 1..Len(Strip(raw)) |->
          IF Lower(Strip(raw)[i]) = " " THEN "_" ELSE Lower(Strip(raw)[i])]
  ELSE << >>

\* The label parts of the archive names, and the names <ts>[_<label>].tar.zst.
Labels == {SafeLabel(r) : r \in RawLabels}
Names == (0..MaxClock) \X Labels
OldSnap == <<0, << >> >>

\* sha256sum of an archive holding tree c
Digest(c) == 10 + 3 * c
\* The tree tar reads at second ts.
TreeAt(ts) == ts + 1

\* The store also holds directories: a directory snapshot is a directory with
\* a metadata.json in it.  Their names, as character sequences.
DirNames == {<<"0", "_", "d">>, <<"d">>}
Items == Names \cup DirNames

\* A directory item: absent, a directory without metadata.json, one whose
\* metadata.json is not JSON, or one whose metadata.json parses; id is the "id"
\* key (<< >> when the key is missing) and created the "created" key (0 when
\* missing).
Metas ==
  {[state |-> st, id |-> << >>, created |-> 0] : st \in {"nodir", "nometa", "malformed"}}
  \cup [state : {"ok"}, id : {<< >>, <<"0", ".">>, <<"s">>}, created : {0, 5}]

EmptyEntry == [arch |-> NoFile, side |-> NoFile, mtime |-> 0]

\* item.name: <ts>.tar.zst or <ts>_<label>.tar.zst for an archive ("." stands
\* for the suffix), the name of the directory otherwise.
ItemName(x) ==
  IF x \in DirNames THEN x
  ELSE <<(<<"0", "1", "2", "3">>)[x[1] + 1]>>
       \o (IF x[2] = << >> THEN << >> ELSE <<"_">> \o x[2]) \o <<".">>

\* The position of a character in code order.
Code(c) ==
  CHOOSE i \in 1..24 :
    (<<" ", "!", "-", ".", "0", "1", "2", "3", "N", "R", "_", "a", "d", "g", "h", "i",
       "l", "n", "o", "r", "s", "t", "u", "y">>)[i] = c
RECURSIVE LexLess(_, _)
\* The order of sorted() on names.
LexLess(a, b) ==
  IF b = << >> THEN FALSE
  ELSE IF a = << >> THEN TRUE
  ELSE IF Head(a) # Head(b) THEN Code(Head(a)) < Code(Head(b))
  ELSE LexLess(Tail(a), Tail(b))
RECURSIVE ItemsInOrder(_)
\* sorted(snapshots_dir.iterdir()) over a set of items.
ItemsInOrder(S) ==
  IF S = {} THEN << >>
  ELSE LET m == CHOOSE x \in S : \A y \in S \ {x} : LexLess(ItemName(x), ItemName(y))
       IN <<m>> \o ItemsInOrder(S \ {m})

\* snapshots.py 24 and 34-36: the items that give a record.
Present(s, x) ==
  IF x \in DirNames THEN s[x].meta.state = "ok" ELSE s[x].arch # NoFile
\* snapshots.py 26-32 and 38-45: the record of an item.
SnapRecord(s, x) ==
  IF x \in DirNames
  THEN [id |-> IF s[x].meta.id = << >> THEN x ELSE s[x].meta.id, item |-> x,
        created |-> s[x].meta.created]
  ELSE [id |-> ItemName(x), item |-> ItemName(x), created |-> s[x].mtime]

\* list_snapshots: json.loads raises on a metadata.json that is not JSON, and
\* nothing catches it; otherwise the records, in the order of the item names.
ListSnapshots(s) ==
  [error |-> \E d \in DirNames : s[d].meta.state = "malformed",
   snaps |-> LET present == SelectSeq(ItemsInOrder(Items), LAMBDA x : Present(s, x))
             IN [i \in 1..Len(present) |-> SnapRecord(s, present[i])]]

PickFirst(snaps) == <<snaps[1]>>
\* sorted(snaps, key=lambda s: s.created)[-1]: the sort is stable, so of the
\* records with the greatest creation time the last in listing order.
PickLatest(snaps) ==
  <<snaps[CHOOSE i \in 1..Len(snaps) :
            \A j \in 1..Len(snaps) :
              \/ snaps[j].created < snaps[i].created
              \/ snaps[j].created = snaps[i].created /\ j <= i]>>
\* latest_snapshot: << >> is None.
LatestSnapshot(snaps) == IF snaps = << >> THEN << >> ELSE PickLatest(snaps)

FindWithoutSuffix(s, id) ==
  \E i \in 1..Len(ListSnapshots(s).snaps) :
    ListSnapshots(s).snaps[i].id \o <<".">> = ItemName(id)
\* find_snapshot: the --snapshot argument is the file name of an archive.
FindSnapshot(s, id) ==
  \E i \in 1..Len(ListSnapshots(s).snaps) : ListSnapshots(s).snaps[i].id = ItemName(id)

VerifyIgnoresMismatch(e) == TRUE
\* _verify_snapshot: no sidecar is a warning; otherwise sha256sum -c must agree.
VerifyPasses(e) ==
  IF e.side = NoFile THEN TRUE
  ELSE e.arch # NoFile /\ e.arch # Partial /\ e.side = Digest(e.arch)

\* --------------------------------------------------------------- helpers
\* Process p is about to execute step l.  An operation's return and the exit of
\* its process are consecutive: nothing else is scheduled in between (a step
\* another process takes there meets the same lock, store and mounts as one it
\* takes just before the return).
At(p, l) == pc[p] = l /\ \A q \in Procs : pc[q] # "returned"
Call(p, c) == log' = [log EXCEPT ![p] = Append(@, c)]
Goto(p, l) == pc' = [pc EXCEPT ![p] = l]
Raise(p, e, l) == /\ err' = [err EXCEPT ![p] = e]
                  /\ pc' = [pc EXCEPT ![p] = l]

lockv == <<fd, entered, flockOwner, lockFile>>
procv == <<op, args>>

\* mount <dev> <m>
MountOn(p, m) == mtab' = [mtab EXCEPT ![m] = Append(@, p)]
\* umount -lf <m>: detaches the topmost mount on m; fails when nothing is mounted
\* there.  A mount is released only by an umount that names its mount point.
IsMounted(m) == mtab[m] # <<>>
UmountAt(m) ==
  IF IsMounted(m) THEN mtab' = [mtab EXCEPT ![m] = SubSeq(@, 1, Len(@) - 1)]
  ELSE UNCHANGED mtab

UmountErrorReplaces(e, failed) == IF failed THEN "umount" ELSE e
\* try: _umount(...) except Exception: pass -- the error being propagated (or
\* none) is what it was before the umount, whether the umount failed or not.
AfterUmount(e, failed) == e

\* One umount of a teardown: the command runs, a failure is swallowed, and
\* loc.ufail remembers that some umount of this process failed.
TryUmount(p, m) ==
  /\ UmountAt(m)
  /\ err' = [err EXCEPT ![p] = AfterUmount(@, ~IsMounted(m))]

\* The mount points on which a mount made by p is still in place.
MountsOf(p) == {m \in MountPoints : \E i \in 1..Len(mtab[m]) : mtab[m][i] = p}

\* The arguments and the local variables of a process that runs nothing.
NoArgs == [none |-> TRUE]
InitLoc == [name |-> OldSnap, rc |-> 0, esp |-> FALSE, swap |-> FALSE, espMount |-> FALSE,
            root |-> FALSE, nparts |-> 0, tries |-> 0, i |-> 1, tree |-> NoFile,
            fstab |-> << >>, ufail |-> FALSE, listing |-> << >>, base |-> << >>,
            roles |-> [esp |-> 0, root |-> 0, swap |-> 0],
            auto |-> [esp |-> 0, root |-> 0]]

\* ------------------------------------------------------------------ Lock
FlockAlways(owner, p) == TRUE
\* fcntl.flock(fd, LOCK_EX | LOCK_NB): granted only when no other handle holds it.
FlockGranted(owner, p) == owner = NoProc

RefusedWaits(p) == "lock"
\* LOCK_NB: a refused flock raises BlockingIOError at once, which ends the
\* operation.
RefusedNext(p) == "returned"

\* The step after the with-statement's __enter__.
AfterLock(p) == IF op[p] = "backup" THEN "b_guard" ELSE "r_verify"

\* Lock.__enter__: open("w") creates or truncates the lock file, flock is tried
\* without blocking, then the marker is written and flushed.  An exception leaves
\* __enter__ without __exit__ being called.
LockEnter(p) ==
  /\ At(p, "lock")
  /\ fd' = [fd EXCEPT ![p] = TRUE]
  /\ IF ~FlockGranted(flockOwner, p)
     THEN /\ lockFile' = ""
          /\ Raise(p, "lock_busy", RefusedNext(p))
          /\ UNCHANGED <<flockOwner, entered>>
     ELSE /\ flockOwner' = p
          /\ \/ /\ lockFile' = "locked"
                /\ entered' = [entered EXCEPT ![p] = TRUE]
                /\ Goto(p, AfterLock(p))
                /\ UNCHANGED err
             \/ /\ lockFile' = ""
                /\ Raise(p, "lock_marker", "returned")
                /\ UNCHANGED entered
  /\ UNCHANGED <<procv, log, loc, mtab, store, clock>>

ExitKeeps(owner, p) == owner
\* Lock.__exit__: flock(LOCK_UN), then close.
ExitReleases(owner, p) == IF owner = p THEN NoProc ELSE owner

LockExit(p) ==
  /\ At(p, "unlock")
  /\ flockOwner' = IF fd[p] THEN ExitReleases(flockOwner, p) ELSE flockOwner
  /\ fd' = [fd EXCEPT ![p] = FALSE]
  /\ entered' = [entered EXCEPT ![p] = FALSE]
  /\ Goto(p, "returned")
  /\ UNCHANGED <<procv, err, log, loc, lockFile, mtab, store, clock>>

\* The process ends (cli.main returns or the exception reaches the top level):
\* the operating system closes its handles, which drops a flock still held,
\* and the memory of the process is gone.
ProcExit(p) ==
  /\ pc[p] = "returned"
  /\ Goto(p, "exited")
  /\ fd' = [fd EXCEPT ![p] = FALSE]
  /\ flockOwner' = IF flockOwner = p THEN NoProc ELSE flockOwner
  /\ args' = [args EXCEPT ![p] = NoArgs]
  /\ err' = [err EXCEPT ![p] = ""]
  /\ log' = [log EXCEPT ![p] = << >>]
  /\ loc' = [loc EXCEPT ![p] = InitLoc]
  /\ UNCHANGED <<op, entered, lockFile, mtab, store, clock>>

\* require_root: os.geteuid() != 0 raises SystemExit.
RequireRoot(p) ==
  /\ At(p, "require_root")
  /\ \/ /\ Goto(p, IF op[p] = "backup" THEN "lock"
                   ELSE IF op[p] = "restore" THEN "r_find" ELSE "f_disk")
        /\ UNCHANGED err
     \/ Raise(p, "not_root", "returned")
  /\ UNCHANGED <<procv, log, loc, lockv, mtab, store, clock>>

\* ---------------------------------------------------------------- backup
\* The snapshot directories a backup can be pointed at: under /media/ or /mnt/
\* or not, and lying on a mounted filesystem below / or not.
StoreDirs == [under : BOOLEAN, mounted : BOOLEAN]
\* has_mountpoint: walks up from the path; the walk ends at "/", whose
\* is_mount() is the value returned when no ancestor was a mount.
RootIsMount == TRUE
HasMountpoint(d) == d.mounted \/ RootIsMount

BackupArgs == [label : RawLabels, dir : StoreDirs]

StartBackup(p, A) ==
  /\ At(p, "idle")
  /\ \E a \in A :
       /\ op' = [op EXCEPT ![p] = "backup"]
       /\ args' = [args EXCEPT ![p] = a]
  /\ Goto(p, "require_root")
  /\ UNCHANGED <<err, log, loc, lockv, mtab, store, clock>>

\* backup.py 17-21: the guard against an unmounted external path.
BGuard(p) ==
  /\ At(p, "b_guard")
  /\ IF args[p].dir.under /\ ~HasMountpoint(args[p].dir)
     THEN Raise(p, "not_mounted", "unlock")
     ELSE Goto(p, "b_latest") /\ UNCHANGED err
  /\ UNCHANGED <<procv, log, loc, lockv, mtab, store, clock>>

\* backup.py 22-26: latest_snapshot, the time stamp and the archive name.
BLatest(p) ==
  /\ At(p, "b_latest")
  /\ Call(p, <<"Base", "iterdir", "snapshots">>)
  /\ IF ListSnapshots(store).error
     THEN Raise(p, "json", "unlock") /\ UNCHANGED loc
     ELSE /\ loc' = [loc EXCEPT ![p].name = <<clock, SafeLabel(args[p].label)>>,
                                ![p].base = LatestSnapshot(ListSnapshots(store).snaps)]
          /\ Goto(p, "b_tar")
          /\ UNCHANGED err
  /\ UNCHANGED <<procv, lockv, mtab, store, clock>>

TarZeroOnly(rc) == rc = 0
\* tar exit status 0 and 1 are accepted.
TarAccepted(rc) == rc \in {0, 1}

\* backup.py 49-54: tar writes the archive at its final name.
BTar(p) ==
  /\ At(p, "b_tar")
  /\ Call(p, <<"Archive", "tar-c", "archive">>)
  /\ \E rc \in {0, 1, 2} :
       IF TarAccepted(rc)
       THEN /\ store' = [store EXCEPT ![loc[p].name].arch = TreeAt(clock),
                                      ![loc[p].name].mtime = clock]
            /\ loc' = [loc EXCEPT ![p].rc = rc]
            /\ Goto(p, "b_sha")
            /\ UNCHANGED err
       ELSE /\ \E f \in {NoFile, Partial} :
                 store' = [store EXCEPT ![loc[p].name].arch = f,
                                        ![loc[p].name].mtime = clock]
            /\ loc' = [loc EXCEPT ![p].rc = rc]
            /\ Raise(p, "tar", "b_cleanup")
  /\ UNCHANGED <<procv, lockv, mtab, clock>>

\* backup.py 55: sh -c "sha256sum <archive> > <archive>.sha256"; the shell
\* creates the sidecar before sha256sum runs.
BSha(p) ==
  /\ At(p, "b_sha")
  /\ Call(p, <<"Checksum", "sha256sum", "archive">>)
  /\ \/ /\ store' = [store EXCEPT ![loc[p].name].side = Digest(store[loc[p].name].arch)]
        /\ Goto(p, "unlock")
        /\ UNCHANGED err
     \/ /\ store' = [store EXCEPT ![loc[p].name].side = Partial]
        /\ Raise(p, "sha256sum", "b_cleanup")
  /\ UNCHANGED <<procv, loc, lockv, mtab, clock>>

\* backup.py 57-64: on any failure the archive is unlinked, best effort.
BCleanup(p) ==
  /\ At(p, "b_cleanup")
  /\ Call(p, <<"Cleanup", "unlink", "archive">>)
  /\ \/ store' = [store EXCEPT ![loc[p].name].arch = NoFile]
     \/ UNCHANGED store
  /\ Goto(p, "unlock")
  /\ UNCHANGED <<procv, err, loc, lockv, mtab, clock>>

\* --------------------------------------------------------------- restore
\* mode disk: swap says swap_mib > 0; mode partition: swap says --swap-part is
\* given; efi says --efi-part is given (read in partition mode only).
\* plan holds --esp-mib, --swap-mib and the size in bytes blockdev --getsize64
\* reports for the target (read in disk mode only).
EspSizes == {-3, 0, 1, EspDefault}
SwapSizes == {0, 1, 200, 1500}
Capacities == {0, 3 * MiB + 4096, 600 * MiB + 4096, 2047 * MiB}
Plans == [espMib : EspSizes, swapMib : SwapSizes, sizeBytes : Capacities]
\* The plan of an invocation that leaves the sizes at a common choice.
TypicalPlan(swap) == [espMib |-> EspDefault, swapMib |-> IF swap THEN 200 ELSE 0,
                      sizeBytes |-> 2047 * MiB]
RestoreArgs ==
  {a \in [snap : Names, mode : {"disk", "partition"}, boot : {"mbr", "uefi"},
          swap : BOOLEAN, efi : BOOLEAN, plan : Plans] :
     IF a.mode = "disk" THEN a.swap = (a.plan.swapMib > 0)
     ELSE a.plan = TypicalPlan(FALSE)}

StartRestore(p, A) ==
  /\ At(p, "idle")
  /\ \E a \in A :
       /\ op' = [op EXCEPT ![p] = "restore"]
       /\ args' = [args EXCEPT ![p] = a]
  /\ Goto(p, "require_root")
  /\ UNCHANGED <<err, log, loc, lockv, mtab, store, clock>>

\* restore.py 241-243: find_snapshot, before the with-statement.
RFind(p) ==
  /\ At(p, "r_find")
  /\ Call(p, <<"Locate", "iterdir", "snapshots">>)
  /\ IF ListSnapshots(store).error THEN Raise(p, "json", "returned")
     ELSE IF FindSnapshot(store, args[p].snap) THEN Goto(p, "lock") /\ UNCHANGED err
     ELSE Raise(p, "snapshot_not_found", "returned")
  /\ UNCHANGED <<procv, loc, lockv, mtab, store, clock>>

AfterVerifySkipsPrepare(a) == "r_mount_root"
\* The step after Verify: restore.py 252-260.
AfterVerify(a) == IF a.mode = "disk" THEN "pd_wipefs" ELSE "r_mkfs"

\* restore.py 250: _verify_snapshot.
VerifyCalls(e) ==
  IF e.side = NoFile THEN << <<"Verify", "exists", "sidecar">> >>
  ELSE << <<"Verify", "exists", "sidecar">>, <<"Verify", "sha256sum-c", "sidecar">> >>

RVerify(p) ==
  /\ At(p, "r_verify")
  /\ log' = [log EXCEPT ![p] = @ \o VerifyCalls(store[args[p].snap])]
  /\ IF VerifyPasses(store[args[p].snap])
     THEN Goto(p, AfterVerify(args[p])) /\ UNCHANGED err
     ELSE Raise(p, "checksum", "unlock")
  /\ UNCHANGED <<procv, loc, lockv, mtab, store, clock>>

\* One external command run through utils.run: it is issued, and either
\* succeeds or raises CalledProcessError.
RunCmd(p, from, c, e, okNext, failNext) ==
  /\ At(p, from)
  /\ Call(p, c)
  /\ \/ Goto(p, okNext) /\ UNCHANGED err
     \/ Raise(p, e, failNext)

\* _partition_disk, restore.py 169: wipefs -a.
PdWipefs(p) ==
  /\ RunCmd(p, "pd_wipefs", <<"Prepare", "wipefs", "disk">>, "wipefs", "pd_parted", "unlock")
  /\ UNCHANGED <<procv, loc, lockv, mtab, store, clock>>

DeviceSizeRoundedUp(bytes) == (bytes + MiB - 1) \div MiB
\* _device_size_mib, restore.py 33-36: the capacity in whole MiB.
DeviceSizeMib(bytes) == bytes \div MiB

\* restore.py 172-175 and 183-184: the boundaries, in MiB.
StartEsp == 1
EndEsp(a) == StartEsp + a.plan.espMib
EndRoot(a) ==
  IF a.plan.swapMib > 0 THEN DeviceSizeMib(a.plan.sizeBytes) - a.plan.swapMib - 1
  ELSE DeviceSizeMib(a.plan.sizeBytes) - 1

\* The partitions the mkpart commands of restore.py 176-187 ask for, in table
\* order; the end "100%" of the swap partition is the capacity.
PlanTable(a) ==
  (IF a.boot = "uefi"
   THEN << [role |-> "esp", start |-> StartEsp, end |-> EndEsp(a)],
           [role |-> "root", start |-> EndEsp(a), end |-> EndRoot(a)] >>
   ELSE << [role |-> "root", start |-> 1, end |-> EndRoot(a)] >>)
  \o (IF a.plan.swapMib > 0
      THEN << [role |-> "swap", start |-> EndRoot(a),
               end |-> DeviceSizeMib(a.plan.sizeBytes)] >>
      ELSE << >>)

\* The commands of restore.py 170-188, in order: the label, the size of the
\* device, the partitions.
PartedCmds(a) ==
  IF a.boot = "uefi"
  THEN << <<"Prepare", "parted", "mklabel gpt">>, <<"Prepare", "blockdev", "disk">>,
          <<"Prepare", "parted", "mkpart ESP">>,
          <<"Prepare", "parted", "set 1 esp on">>, <<"Prepare", "parted", "mkpart root">> >>
       \o (IF a.swap THEN << <<"Prepare", "parted", "mkpart swap">> >> ELSE << >>)
  ELSE << <<"Prepare", "parted", "mklabel msdos">>, <<"Prepare", "blockdev", "disk">>,
          <<"Prepare", "parted", "mkpart root">> >>
       \o (IF a.swap THEN << <<"Prepare", "parted", "mkpart swap">>,
                             <<"Prepare", "parted", "set 2 swap on">> >> ELSE << >>)

\* restore.py 170-188: the table is written command by command; the first
\* command that fails ends the planner (int() of an empty blockdev output
\* raises ValueError).
PdParted(p) ==
  /\ At(p, "pd_parted")
  /\ LET cmds == PartedCmds(args[p]) IN
       \/ /\ log' = [log EXCEPT ![p] = @ \o cmds]
          /\ Goto(p, "pd_wait")
          /\ UNCHANGED err
       \/ \E k \in 1..Len(cmds) :
            /\ log' = [log EXCEPT ![p] = @ \o SubSeq(cmds, 1, k)]
            /\ Raise(p, IF cmds[k][2] = "blockdev" THEN "value_error" ELSE "parted", "unlock")
  /\ UNCHANGED <<procv, loc, lockv, mtab, store, clock>>

\* _wait_block_devices, restore.py 189: partprobe and udevadm settle.
PdWait(p) ==
  /\ RunCmd(p, "pd_wait", <<"Prepare", "partprobe", "disk">>, "partprobe", "pd_poll", "unlock")
  /\ UNCHANGED <<procv, loc, lockv, mtab, store, clock>>

\* The number of child partitions the table of restore.py 170-188 creates.
ExpectedParts(a) == (IF a.boot = "uefi" THEN 2 ELSE 1) + (IF a.swap THEN 1 ELSE 0)

\* restore.py 190-211: the poll ends as soon as any child partition is listed.
PollDone(n) == n > 0

\* restore.py 199-207: roles by table order.  parts[1] does not exist when a
\* uefi table shows one child (IndexError).
AssignFails(a, n) == a.boot = "uefi" /\ n < 2
AssignSwap(a, n) == a.swap /\ n > (IF a.boot = "uefi" THEN 2 ELSE 1)

\* _list_partitions returns the visible children sorted by name: the k-th
\* entry of parts, as the number of the partition in the table.
Nth(vis, k) == CHOOSE x \in vis : Cardinality({y \in vis : y < x}) = k - 1
\* restore.py 199-207: esp, root and swap by position in parts (0 for None).
AssignRoles(a, vis) ==
  IF a.boot = "uefi"
  THEN [esp |-> Nth(vis, 1), root |-> Nth(vis, 2),
        swap |-> IF AssignSwap(a, Cardinality(vis)) THEN Nth(vis, 3) ELSE 0]
  ELSE [esp |-> 0, root |-> Nth(vis, 1),
        swap |-> IF AssignSwap(a, Cardinality(vis)) THEN Nth(vis, 2) ELSE 0]

PollForever(tries) == TRUE
\* for _ in range(10): another listing follows unless this was the last.
PollAgain(tries) == tries + 1 < PollMax

\* restore.py 190-198: up to PollMax listings, each followed (when empty) by a
\* sleep and _wait_block_devices; then the role assignment of 199-207.  A
\* listing shows any subset vis of the partitions of the table.
PdPoll(p) ==
  /\ At(p, "pd_poll")
  /\ \E vis \in SUBSET (1..ExpectedParts(args[p])) :
     LET n == Cardinality(vis) IN
       IF PollDone(n)
       THEN /\ Call(p, <<"Prepare", "lsblk", "disk">>)
            /\ IF AssignFails(args[p], n)
               THEN /\ Raise(p, "index_error", "unlock")
                    /\ loc' = [loc EXCEPT ![p].nparts = n]
               ELSE /\ loc' = [loc EXCEPT ![p].nparts = n,
                                          ![p].roles = AssignRoles(args[p], vis),
                                          ![p].esp = (args[p].boot = "uefi"),
                                          ![p].swap = AssignSwap(args[p], n)]
                    /\ Goto(p, IF args[p].boot = "uefi" THEN "pd_format_esp" ELSE "pd_mkfs")
                    /\ UNCHANGED err
       ELSE /\ log' = [log EXCEPT ![p] = @ \o << <<"Prepare", "lsblk", "disk">>,
                                                 <<"Prepare", "partprobe", "disk">> >>]
            /\ loc' = [loc EXCEPT ![p].tries = @ + 1]
            /\ \/ Raise(p, "partprobe", "unlock")
               \/ IF PollAgain(loc[p].tries)
                  THEN UNCHANGED <<pc, err>>
                  ELSE Raise(p, "no_partitions", "unlock")
  /\ UNCHANGED <<procv, lockv, mtab, store, clock>>

\* restore.py 203: _format_esp inside the planner.
PdFormatEsp(p) ==
  /\ RunCmd(p, "pd_format_esp", <<"Prepare", "mkfs.vfat", "esp">>, "mkfs.vfat", "pd_mkfs", "unlock")
  /\ UNCHANGED <<procv, loc, lockv, mtab, store, clock>>

\* restore.py 208: _mkfs inside the planner.
PdMkfs(p) ==
  /\ RunCmd(p, "pd_mkfs", <<"Prepare", "mkfs", "root">>, "mkfs",
            IF loc[p].swap THEN "pd_mkswap" ELSE "r_mount_root", "unlock")
  /\ UNCHANGED <<procv, loc, lockv, mtab, store, clock>>

\* restore.py 209-210: _format_swap inside the planner.
PdMkswap(p) ==
  /\ RunCmd(p, "pd_mkswap", <<"Prepare", "mkswap", "swap">>, "mkswap", "r_mount_root", "unlock")
  /\ UNCHANGED <<procv, loc, lockv, mtab, store, clock>>

\* restore.py 255-260: partition mode takes the caller's partitions and
\* formats the root only.
RMkfs(p) ==
  /\ RunCmd(p, "r_mkfs", <<"Prepare", "mkfs", "root">>, "mkfs", "r_mount_root", "unlock")
  /\ loc' = [loc EXCEPT ![p].esp = (args[p].boot = "uefi" /\ args[p].efi),
                        ![p].swap = args[p].swap]
  /\ UNCHANGED <<procv, lockv, mtab, store, clock>>

\* Where a failure between restore.py 261 and 270 goes: these lines precede
\* the try statement, so the exception leaves the with-statement directly.
MountFailTarget == "unlock"

\* The step after the root is mounted.
AfterMountRoot(a, l) ==
  IF a.boot = "uefi" THEN "r_esp_check"
  ELSE IF l.swap THEN "r_swap" ELSE "r_extract"

\* restore.py 261: _mount(root_part, root_mount).
RMountRoot(p) ==
  /\ At(p, "r_mount_root")
  /\ Call(p, <<"Mount", "mount", "root">>)
  /\ \/ /\ MountOn(p, "root")
        /\ Goto(p, AfterMountRoot(args[p], loc[p]))
        /\ UNCHANGED err
     \/ /\ Raise(p, "mount", "unlock")
        /\ UNCHANGED mtab
  /\ UNCHANGED <<procv, loc, lockv, store, clock>>

\* restore.py 263-266: uefi needs an ESP.
REspCheck(p) ==
  /\ At(p, "r_esp_check")
  /\ IF ~loc[p].esp
     THEN Raise(p, "efi_required", MountFailTarget) /\ UNCHANGED loc
     ELSE /\ loc' = [loc EXCEPT ![p].espMount = TRUE]
          /\ Goto(p, IF args[p].mode = "disk" THEN "r_format_esp" ELSE "r_mount_esp")
          /\ UNCHANGED err
  /\ UNCHANGED <<procv, log, lockv, mtab, store, clock>>

\* restore.py 267: _format_esp again, in disk mode.
RFormatEsp(p) ==
  /\ RunCmd(p, "r_format_esp", <<"Mount", "mkfs.vfat", "esp">>, "mkfs.vfat",
            "r_mount_esp", MountFailTarget)
  /\ UNCHANGED <<procv, loc, lockv, mtab, store, clock>>

\* restore.py 268: _mount(esp_part, esp_mount).
RMountEsp(p) ==
  /\ At(p, "r_mount_esp")
  /\ Call(p, <<"Mount", "mount", "esp">>)
  /\ \/ /\ MountOn(p, "esp")
        /\ Goto(p, IF loc[p].swap THEN "r_swap" ELSE "r_extract")
        /\ UNCHANGED err
     \/ /\ Raise(p, "mount", MountFailTarget)
        /\ UNCHANGED mtab
  /\ UNCHANGED <<procv, loc, lockv, store, clock>>

\* restore.py 269-270: _format_swap.
RSwap(p) ==
  /\ RunCmd(p, "r_swap", <<"Mount", "mkswap", "swap">>, "mkswap", "r_extract", MountFailTarget)
  /\ UNCHANGED <<procv, loc, lockv, mtab, store, clock>>

\* Where a failure inside the try statement of restore.py 272-275 goes.
TryFailTarget == "t_umount_esp"

\* restore.py 273: _extract_snapshot; tar unpacks a complete archive only.
RExtract(p) ==
  /\ At(p, "r_extract")
  /\ Call(p, <<"Extract", "tar-x", "root">>)
  /\ \/ /\ store[args[p].snap].arch > Partial
        /\ loc' = [loc EXCEPT ![p].tree = store[args[p].snap].arch]
        /\ Goto(p, "r_fstab")
        /\ UNCHANGED err
     \/ /\ Raise(p, "tar", TryFailTarget)
        /\ UNCHANGED loc
  /\ UNCHANGED <<procv, lockv, mtab, store, clock>>

\* _write_fstab, restore.py 107-122: the roles that get a line, in order.
FstabLines(a, l) ==
  <<"root">> \o (IF a.boot = "uefi" /\ l.esp THEN <<"esp">> ELSE << >>)
             \o (IF l.swap THEN <<"swap">> ELSE << >>)

\* The device restore holds for a role: the partition of the target that
\* _partition_disk returned (by its number), or the --target, --efi-part or
\* --swap-part argument.
DeviceOf(a, l, role) ==
  IF a.mode = "disk" THEN <<"partition", l.roles[role]>>
  ELSE <<(CASE role = "root" -> "--target" [] role = "esp" -> "--efi-part"
            [] OTHER -> "--swap-part"), 0>>
\* The UUID of the filesystem on a device.
Uuid(dev) == <<"uuid">> \o dev
\* _uuid, restore.py 108-109: what blkid printed, stripped; the exit status of
\* blkid is not read, and a blkid that fails prints nothing.
BlkidOutput(dev, ok) == IF ok THEN Uuid(dev) ELSE << >>
\* restore.py 111-119: one line per role, keyed by the output of blkid.
FstabText(a, l, bad) ==
  [i \in 1..Len(FstabLines(a, l)) |->
     [role |-> FstabLines(a, l)[i],
      key |-> BlkidOutput(DeviceOf(a, l, FstabLines(a, l)[i]), FstabLines(a, l)[i] \notin bad)]]

\* The roles whose blkid fails in one run of _write_fstab: none, or one of them.
BlkidFailures(roles) == {{}} \cup {{roles[i]} : i \in 1..Len(roles)}

RECURSIVE BlkidCalls(_)
BlkidCalls(roles) ==
  IF roles = << >> THEN << >>
  ELSE << <<"Configure", "blkid", Head(roles)>> >> \o BlkidCalls(Tail(roles))

\* restore.py 274: _write_fstab.
RFstab(p) ==
  /\ At(p, "r_fstab")
  /\ log' = [log EXCEPT ![p] = @ \o BlkidCalls(FstabLines(args[p], loc[p]))
                                 \o << <<"Configure", "write", "fstab">> >>]
  /\ \/ /\ \E bad \in BlkidFailures(FstabLines(args[p], loc[p])) :
             loc' = [loc EXCEPT ![p].fstab = FstabText(args[p], loc[p], bad)]
        /\ Goto(p, "r_parent_disk")
        /\ UNCHANGED err
     \/ /\ Raise(p, "write_fstab", TryFailTarget)
        /\ UNCHANGED loc
  /\ UNCHANGED <<procv, lockv, mtab, store, clock>>

\* restore.py 275: _parent_disk(root_part), the argument of _install_grub.
RParentDisk(p) ==
  /\ RunCmd(p, "r_parent_disk", <<"Install", "lsblk", "pkname">>, "no_parent_disk",
            "g_bind", TryFailTarget)
  /\ loc' = [loc EXCEPT ![p].i = 1]
  /\ UNCHANGED <<procv, lockv, mtab, store, clock>>

\* Where a failure of a bind mount of _install_grub goes: restore.py 126-129
\* precede the try statement of _install_grub, so its finally does not run.
BindFailTarget == TryFailTarget

\* _install_grub, restore.py 126-129: the four bind mounts.
GBind(p) ==
  /\ At(p, "g_bind")
  /\ Call(p, <<"Install", "mount--bind", BindMounts[loc[p].i]>>)
  /\ \/ /\ MountOn(p, BindMounts[loc[p].i])
        /\ IF loc[p].i < Len(BindMounts)
           THEN loc' = [loc EXCEPT ![p].i = @ + 1] /\ UNCHANGED pc
           ELSE /\ loc' = [loc EXCEPT ![p].i = 1]
                /\ Goto(p, IF args[p].boot = "uefi" THEN "g_install_efi" ELSE "g_install_mbr")
        /\ UNCHANGED err
     \/ /\ Raise(p, "mount--bind", BindFailTarget)
        /\ loc' = [loc EXCEPT ![p].i = 1]
        /\ UNCHANGED mtab
  /\ UNCHANGED <<procv, lockv, store, clock>>

\* The arguments of the grub-install commands, restore.py 134-158 and
\* bootfix.py 90-113: efiDir is str(esp_mount), bootDir is str(root / "boot"),
\* device is the positional argument.
GrubInstallArgs(kind) ==
  IF kind = "efi"
  THEN [target |-> "x86_64-efi", efiDir |-> "root/boot/efi", bootDir |-> "root/boot",
        device |-> "", flags |-> {}]
  ELSE IF kind = "efi-removable"
  THEN [target |-> "x86_64-efi", efiDir |-> "root/boot/efi", bootDir |-> "root/boot",
        device |-> "", flags |-> {"--removable", "--no-nvram"}]
  ELSE [target |-> "i386-pc", efiDir |-> "", bootDir |-> "root/boot",
        device |-> "disk", flags |-> {}]

StandardInstallOnly(a) == "g_update"
\* restore.py 134-156: the standard install is followed by the removable one.
AfterStandardInstall(a) == "g_install_removable"

\* _install_grub, restore.py 131-143: the standard UEFI install.
GInstallEfi(p) ==
  /\ At(p, "g_install_efi")
  /\ IF ~loc[p].espMount
     THEN Raise(p, "efi_mount_missing", "g_umount") /\ UNCHANGED log
     ELSE RunCmd(p, "g_install_efi", <<"Install", "grub-install", "efi">>, "grub-install",
                 AfterStandardInstall(args[p]), "g_umount")
  /\ UNCHANGED <<procv, loc, lockv, mtab, store, clock>>

\* _install_grub, restore.py 145-156: the removable, no-nvram install.
GInstallRemovable(p) ==
  /\ RunCmd(p, "g_install_removable", <<"Install", "grub-install", "efi-removable">>,
            "grub-install", "g_update", "g_umount")
  /\ UNCHANGED <<procv, loc, lockv, mtab, store, clock>>

\* _install_grub, restore.py 158: the MBR install on the whole disk.
GInstallMbr(p) ==
  /\ RunCmd(p, "g_install_mbr", <<"Install", "grub-install", "disk">>, "grub-install",
            "g_update", "g_umount")
  /\ UNCHANGED <<procv, loc, lockv, mtab, store, clock>>

\* _install_grub, restore.py 159: chroot update-grub.
GUpdate(p) ==
  /\ RunCmd(p, "g_update", <<"Install", "update-grub", "root">>, "update-grub",
            "g_umount", "g_umount")
  /\ UNCHANGED <<procv, loc, lockv, mtab, store, clock>>

\* _install_grub, restore.py 160-165: the finally block unmounts dev, proc,
\* sys, run in that order; a failing umount is swallowed.
GUmount(p) ==
  /\ At(p, "g_umount")
  /\ Call(p, <<"Install", "umount", BindMounts[loc[p].i]>>)
  /\ TryUmount(p, BindMounts[loc[p].i])
  /\ LET failed == loc[p].ufail \/ ~IsMounted(BindMounts[loc[p].i]) IN
       IF loc[p].i < Len(BindMounts)
       THEN loc' = [loc EXCEPT ![p].i = @ + 1, ![p].ufail = failed] /\ UNCHANGED pc
       ELSE loc' = [loc EXCEPT ![p].i = 1, ![p].ufail = failed] /\ Goto(p, "t_umount_esp")
  /\ UNCHANGED <<procv, lockv, store, clock>>

\* restore.py 277-281: umount of the ESP, when esp_mount was set.
TUmountEsp(p) ==
  /\ At(p, "t_umount_esp")
  /\ IF loc[p].espMount
     THEN /\ Call(p, <<"Teardown", "umount", "esp">>)
          /\ TryUmount(p, "esp")
          /\ loc' = [loc EXCEPT ![p].ufail = @ \/ ~IsMounted("esp")]
     ELSE UNCHANGED <<log, mtab, err, loc>>
  /\ Goto(p, "t_umount_root")
  /\ UNCHANGED <<procv, lockv, store, clock>>

\* restore.py 282-285: umount of the root.
TUmountRoot(p) ==
  /\ At(p, "t_umount_root")
  /\ Call(p, <<"Teardown", "umount", "root">>)
  /\ TryUmount(p, "root")
  /\ loc' = [loc EXCEPT ![p].ufail = @ \/ ~IsMounted("root")]
  /\ Goto(p, "unlock")
  /\ UNCHANGED <<procv, lockv, store, clock>>

\* -------------------------------------------------------------- boot-fix
\* A child partition as lsblk reports it: whether PARTTYPE is the ESP GUID
\* c12a7328-f81f-11d2-ba4b-00a0c93ec93b, and FSTYPE.
Children == [guid : BOOLEAN, fstype : {"vfat", "ext4", "xfs", "swap"}]

Layouts == UNION {[1..n -> Children] : n \in 0..MaxChildren}

\* The lowest child of a set of children, 0 for none.
Lowest(S) == IF S = {} THEN 0 ELSE CHOOSE i \in S : \A j \in S : i <= j
FirstCandidates(ch, i, esp, root) ==
  [esp |-> Lowest({k \in 1..Len(ch) : ch[k].guid \/ ch[k].fstype \in {"vfat", "fat32"}}),
   root |-> Lowest({k \in 1..Len(ch) : ch[k].fstype \in {"ext4", "xfs", "btrfs"}}),
   error |-> ""]
RECURSIVE Detect(_, _, _, _)
\* _detect_partitions, bootfix.py 25-46: esp and root are the index of the child
\* chosen (0 for None); a second candidate raises SystemExit.
Detect(ch, i, esp, root) ==
  IF i > Len(ch) THEN [esp |-> esp, root |-> root, error |-> ""]
  ELSE LET isEsp == ch[i].guid \/ ch[i].fstype \in {"vfat", "fat32"}
           isRoot == ch[i].fstype \in {"ext4", "xfs", "btrfs"}
       IN IF isEsp /\ esp # 0 THEN [esp |-> esp, root |-> root, error |-> "multiple_esp"]
          ELSE IF isRoot /\ root # 0
               THEN [esp |-> esp, root |-> root, error |-> "multiple_root"]
               ELSE Detect(ch, i + 1, IF isEsp THEN i ELSE esp, IF isRoot THEN i ELSE root)

DetectPartitions(ch) == Detect(ch, 1, 0, 0)

BootFixArgs == [boot : {"mbr", "uefi"}, rootGiven : BOOLEAN, espGiven : BOOLEAN,
                children : Layouts, disk : {"block", "file", "missing"}]

StartBootFix(p, A) ==
  /\ At(p, "idle")
  /\ \E a \in A :
       /\ op' = [op EXCEPT ![p] = "bootfix"]
       /\ args' = [args EXCEPT ![p] = a]
  /\ Goto(p, "require_root")
  /\ UNCHANGED <<err, log, loc, lockv, mtab, store, clock>>

\* bootfix.py 57-60: the disk must exist and be a block device.
FDisk(p) ==
  /\ At(p, "f_disk")
  /\ IF args[p].disk = "missing" THEN Raise(p, "disk_not_found", "returned")
     ELSE IF args[p].disk # "block" THEN Raise(p, "not_block_device", "returned")
     ELSE /\ Goto(p, IF ~args[p].rootGiven \/ (args[p].boot = "uefi" /\ ~args[p].espGiven)
                     THEN "f_detect" ELSE "f_check")
          /\ UNCHANGED err
  /\ loc' = [loc EXCEPT ![p].root = args[p].rootGiven, ![p].esp = args[p].espGiven]
  /\ UNCHANGED <<procv, log, lockv, mtab, store, clock>>

\* bootfix.py 62-67: auto-detection fills the roles the caller left open.
FDetect(p) ==
  /\ At(p, "f_detect")
  /\ Call(p, <<"Detect", "lsblk", "disk">>)
  /\ LET d == DetectPartitions(args[p].children) IN
       \/ /\ d.error # ""
          /\ Raise(p, d.error, "returned")
          /\ UNCHANGED loc
       \/ /\ d.error = ""
          /\ loc' = [loc EXCEPT
                       ![p].auto = [esp |-> d.esp, root |-> d.root],
                       ![p].root = IF ~args[p].rootGiven THEN d.root # 0 ELSE TRUE,
                       ![p].esp = IF args[p].boot = "uefi" /\ ~args[p].espGiven
                                  THEN d.esp # 0 ELSE args[p].espGiven]
          /\ Goto(p, "f_check")
          /\ UNCHANGED err
       \/ /\ Raise(p, "lsblk", "returned")
          /\ UNCHANGED loc
  /\ UNCHANGED <<procv, lockv, mtab, store, clock>>

\* bootfix.py 69-72: both roles must be resolved.
FCheck(p) ==
  /\ At(p, "f_check")
  /\ IF ~loc[p].root THEN Raise(p, "root_not_detected", "returned")
     ELSE IF args[p].boot = "uefi" /\ ~loc[p].esp THEN Raise(p, "esp_not_detected", "returned")
     ELSE Goto(p, "f_mount_root") /\ UNCHANGED err
  /\ UNCHANGED <<procv, log, loc, lockv, mtab, store, clock>>

\* bootfix.py 80: mount of the root, before the try statement.
FMountRoot(p) ==
  /\ At(p, "f_mount_root")
  /\ Call(p, <<"Mount", "mount", "root">>)
  /\ \/ /\ MountOn(p, "root")
        /\ Goto(p, IF args[p].boot = "uefi" THEN "f_mount_esp" ELSE "f_bind")
        /\ loc' = [loc EXCEPT ![p].i = 1]
        /\ UNCHANGED err
     \/ /\ Raise(p, "mount", "returned")
        /\ UNCHANGED <<mtab, loc>>
  /\ UNCHANGED <<procv, lockv, store, clock>>

\* bootfix.py 81 and 117: a failure inside the try statement runs the finally
\* block before it leaves boot_fix.
FinallyBlock == "f_umount"

\* bootfix.py 82-84: mount of the ESP, inside the try statement.
FMountEsp(p) ==
  /\ At(p, "f_mount_esp")
  /\ Call(p, <<"Mount", "mount", "esp">>)
  /\ \/ /\ MountOn(p, "esp")
        /\ Goto(p, "f_bind")
        /\ UNCHANGED err
     \/ /\ Raise(p, "mount", FinallyBlock)
        /\ UNCHANGED mtab
  /\ UNCHANGED <<procv, loc, lockv, store, clock>>

\* bootfix.py 86-87: the four bind mounts, inside the try statement.
FBind(p) ==
  /\ At(p, "f_bind")
  /\ Call(p, <<"Install", "mount--bind", BindMounts[loc[p].i]>>)
  /\ \/ /\ MountOn(p, BindMounts[loc[p].i])
        /\ IF loc[p].i < Len(BindMounts)
           THEN loc' = [loc EXCEPT ![p].i = @ + 1] /\ UNCHANGED pc
           ELSE /\ loc' = [loc EXCEPT ![p].i = 1]
                /\ Goto(p, IF args[p].boot = "uefi" THEN "f_install_efi" ELSE "f_install_mbr")
        /\ UNCHANGED err
     \/ /\ Raise(p, "mount--bind", FinallyBlock)
        /\ loc' = [loc EXCEPT ![p].i = 1]
        /\ UNCHANGED mtab
  /\ UNCHANGED <<procv, lockv, store, clock>>

\* bootfix.py 89-99: the standard UEFI install.
FInstallEfi(p) ==
  /\ RunCmd(p, "f_install_efi", <<"Install", "grub-install", "efi">>, "grub-install",
            "f_install_removable", FinallyBlock)
  /\ UNCHANGED <<procv, loc, lockv, mtab, store, clock>>

\* bootfix.py 100-111: the removable, no-nvram install.
FInstallRemovable(p) ==
  /\ RunCmd(p, "f_install_removable", <<"Install", "grub-install", "efi-removable">>,
            "grub-install", "f_update", FinallyBlock)
  /\ UNCHANGED <<procv, loc, lockv, mtab, store, clock>>

\* bootfix.py 113: the MBR install on the whole disk.
FInstallMbr(p) ==
  /\ RunCmd(p, "f_install_mbr", <<"Install", "grub-install", "disk">>, "grub-install",
            "f_update", FinallyBlock)
  /\ UNCHANGED <<procv, loc, lockv, mtab, store, clock>>

\* bootfix.py 115: chroot update-grub.
FUpdate(p) ==
  /\ RunCmd(p, "f_update", <<"Install", "update-grub", "root">>, "update-grub",
            FinallyBlock, FinallyBlock)
  /\ UNCHANGED <<procv, loc, lockv, mtab, store, clock>>

\* bootfix.py 117-122: the finally block unmounts dev, proc, sys, run.
FUmount(p) ==
  /\ At(p, "f_umount")
  /\ Call(p, <<"Teardown", "umount", BindMounts[loc[p].i]>>)
  /\ TryUmount(p, BindMounts[loc[p].i])
  /\ LET failed == loc[p].ufail \/ ~IsMounted(BindMounts[loc[p].i]) IN
       IF loc[p].i < Len(BindMounts)
       THEN loc' = [loc EXCEPT ![p].i = @ + 1, ![p].ufail = failed] /\ UNCHANGED pc
       ELSE loc' = [loc EXCEPT ![p].i = 1, ![p].ufail = failed] /\ Goto(p, "f_umount_esp")
  /\ UNCHANGED <<procv, lockv, store, clock>>

\* bootfix.py 123-127: umount of the ESP, for uefi.
FUmountEsp(p) ==
  /\ At(p, "f_umount_esp")
  /\ IF args[p].boot = "uefi"
     THEN /\ Call(p, <<"Teardown", "umount", "esp">>)
          /\ TryUmount(p, "esp")
          /\ loc' = [loc EXCEPT ![p].ufail = @ \/ ~IsMounted("esp")]
     ELSE UNCHANGED <<log, mtab, err, loc>>
  /\ Goto(p, "f_umount_root")
  /\ UNCHANGED <<procv, lockv, store, clock>>

\* bootfix.py 128-131: umount of the root.
FUmountRoot(p) ==
  /\ At(p, "f_umount_root")
  /\ Call(p, <<"Teardown", "umount", "root">>)
  /\ TryUmount(p, "root")
  /\ loc' = [loc EXCEPT ![p].ufail = @ \/ ~IsMounted("root")]
  /\ Goto(p, "returned")
  /\ UNCHANGED <<procv, lockv, store, clock>>

\* ----------------------------------------------------------- the machine
\* The store holds one earlier snapshot, whose sidecar s is absent, right or wrong.
InitStore(s) ==
  [x \in Items |->
     IF x \in DirNames THEN [meta |-> [state |-> "nodir", id |-> << >>, created |-> 0]]
     ELSE IF x = OldSnap THEN [arch |-> TreeAt(0), side |-> s, mtime |-> 0]
     ELSE EmptyEntry]
Sidecars == {NoFile, Digest(TreeAt(0)), Digest(TreeAt(0)) + 1}

InitProcs ==
  /\ op = [p \in Procs |-> "none"]
  /\ args = [p \in Procs |-> NoArgs]
  /\ pc = [p \in Procs |-> "idle"]
  /\ err = [p \in Procs |-> ""]
  /\ log = [p \in Procs |-> << >>]
  /\ loc = [p \in Procs |-> InitLoc]
  /\ fd = [p \in Procs |-> FALSE]
  /\ entered = [p \in Procs |-> FALSE]
  /\ flockOwner = NoProc
  /\ lockFile = "absent"
  /\ mtab = [m \in MountPoints |-> << >>]
  /\ clock = MaxClock

Init ==
  /\ InitProcs
  /\ store = InitStore(Digest(TreeAt(0)))

LockSteps(p) == LockEnter(p) \/ LockExit(p) \/ ProcExit(p) \/ RequireRoot(p)

BackupSteps(p) == BGuard(p) \/ BLatest(p) \/ BTar(p) \/ BSha(p) \/ BCleanup(p)

PlannerSteps(p) ==
  \/ PdWipefs(p) \/ PdParted(p) \/ PdWait(p) \/ PdPoll(p)
  \/ PdFormatEsp(p) \/ PdMkfs(p) \/ PdMkswap(p)

InstallSteps(p) ==
  \/ GBind(p) \/ GInstallEfi(p) \/ GInstallRemovable(p) \/ GInstallMbr(p)
  \/ GUpdate(p) \/ GUmount(p)

\* The steps of a restore onto existing partitions (mode partition).
PartitionRestoreSteps(p) ==
  \/ RFind(p) \/ RVerify(p) \/ RMkfs(p)
  \/ RMountRoot(p) \/ REspCheck(p) \/ RMountEsp(p) \/ RSwap(p)
  \/ RExtract(p) \/ RFstab(p) \/ RParentDisk(p) \/ InstallSteps(p)
  \/ TUmountEsp(p) \/ TUmountRoot(p)

\* Mode disk adds the planner and the second format of the ESP.
RestoreSteps(p) == PartitionRestoreSteps(p) \/ PlannerSteps(p) \/ RFormatEsp(p)

BootFixSteps(p) ==
  \/ FDisk(p) \/ FDetect(p) \/ FCheck(p) \/ FMountRoot(p) \/ FMountEsp(p) \/ FBind(p)
  \/ FInstallEfi(p) \/ FInstallRemovable(p) \/ FInstallMbr(p) \/ FUpdate(p)
  \/ FUmount(p) \/ FUmountEsp(p) \/ FUmountRoot(p)

\* The invocations that race in Spec: a backup, a disk restore of the old
\* snapshot (uefi with swap) and a partition restore of the snapshot the backup
\* writes (mbr).
RaceBackups == {[label |-> Auto, dir |-> [under |-> FALSE, mounted |-> FALSE]]}
RaceRestores ==
  {[snap |-> OldSnap, mode |-> "disk", boot |-> "uefi", swap |-> TRUE, efi |-> FALSE,
    plan |-> TypicalPlan(TRUE)],
   [snap |-> <<MaxClock, << >> >>, mode |-> "partition", boot |-> "mbr", swap |-> FALSE,
    efi |-> FALSE, plan |-> TypicalPlan(FALSE)]}

\* Backups and restores started by separate processes on one state directory.
Next ==
  \E p \in Procs :
    \/ StartBackup(p, RaceBackups)
    \/ StartRestore(p, RaceRestores)
    \/ LockSteps(p)
    \/ BackupSteps(p)
    \/ RestoreSteps(p)

Spec == Init /\ [][Next]_vars

\* A restore onto existing partitions in process 1 and a boot-fix in process 2,
\* on one machine.
MountRestores ==
  {[snap |-> OldSnap, mode |-> "partition", boot |-> "uefi", swap |-> TRUE, efi |-> TRUE,
    plan |-> TypicalPlan(FALSE)],
   [snap |-> OldSnap, mode |-> "partition", boot |-> "mbr", swap |-> FALSE, efi |-> FALSE,
    plan |-> TypicalPlan(FALSE)]}
MountBootFixes ==
  {[boot |-> b, rootGiven |-> FALSE, espGiven |-> FALSE,
    children |-> <<[guid |-> TRUE, fstype |-> "vfat"], [guid |-> FALSE, fstype |-> "ext4"]>>,
    disk |-> "block"] : b \in {"mbr", "uefi"}}

NextMounts ==
  \E p \in Procs :
    \/ p = 1 /\ StartRestore(p, MountRestores)
    \/ p = 2 /\ StartBootFix(p, MountBootFixes)
    \/ LockSteps(p)
    \/ PartitionRestoreSteps(p)
    \/ BootFixSteps(p)

SpecMounts == Init /\ [][NextMounts]_vars

\* One boot-fix, alone on the machine, for every combination of arguments and
\* every partition table of up to MaxChildren children.
NextBootFix ==
  \/ StartBootFix(2, BootFixArgs)
  \/ RequireRoot(2)
  \/ ProcExit(2)
  \/ BootFixSteps(2)

SpecBootFix == Init /\ [][NextBootFix]_vars

\* One restore, alone on the machine, for every combination of arguments (with
\* the typical plan sizes) and every state of the sidecar of the old snapshot.
TypicalRestores == {a \in RestoreArgs : a.plan = TypicalPlan(a.mode = "disk" /\ a.swap)}

InitRestore ==
  /\ InitProcs
  /\ \E s \in Sidecars : store = InitStore(s)

NextRestore ==
  \/ StartRestore(1, TypicalRestores)
  \/ LockSteps(1)
  \/ RestoreSteps(1)

SpecRestore == InitRestore /\ [][NextRestore]_vars

\* One restore onto a whole disk, for every plan: every ESP size, swap size and
\* device capacity, for both boot schemes.
DiskRestores == {a \in RestoreArgs : a.mode = "disk" /\ a.snap = OldSnap /\ ~a.efi}

DiskRestoreSteps(p) ==
  \/ RFind(p) \/ RVerify(p) \/ PlannerSteps(p)
  \/ RMountRoot(p) \/ REspCheck(p) \/ RFormatEsp(p) \/ RMountEsp(p) \/ RSwap(p)
  \/ RExtract(p) \/ RFstab(p) \/ RParentDisk(p) \/ InstallSteps(p)
  \/ TUmountEsp(p) \/ TUmountRoot(p)

NextPlanner ==
  \/ StartRestore(1, DiskRestores)
  \/ LockSteps(1)
  \/ DiskRestoreSteps(1)

SpecPlanner == Init /\ [][NextPlanner]_vars

\* One restore onto a whole disk with the common sizes.  The poll of the
\* planner goes on whenever it can: an iteration waits for nothing but lsblk,
\* sleep(0.5), partprobe and udevadm settle, which return.
PollRestores == {a \in DiskRestores : a.plan = TypicalPlan(a.swap)}

NextPoll ==
  \/ StartRestore(1, PollRestores)
  \/ LockSteps(1)
  \/ DiskRestoreSteps(1)

SpecPoll == Init /\ [][NextPoll]_vars /\ WF_vars(PdPoll(1))

\* Backups only, started by separate processes with every label and every
\* kind of snapshot directory.
NextBackup ==
  \E p \in Procs :
    \/ StartBackup(p, BackupArgs)
    \/ LockSteps(p)
    \/ BackupSteps(p)

SpecBackup == Init /\ [][NextBackup]_vars

\* systemback-ng list, cli.py 63-66.
StartList(p) ==
  /\ At(p, "idle")
  /\ op' = [op EXCEPT ![p] = "list"]
  /\ Goto(p, "l_list")
  /\ UNCHANGED <<args, err, log, loc, lockv, mtab, store, clock>>

StaleListing(s, prev) == [error |-> FALSE, snaps |-> prev]
\* Every call scans the directory; nothing of an earlier call is kept.
Rescan(s, prev) == ListSnapshots(s)

LList(p) ==
  /\ At(p, "l_list")
  /\ Call(p, <<"List", "iterdir", "snapshots">>)
  /\ IF Rescan(store, loc[p].listing).error
     THEN Raise(p, "json", "returned") /\ UNCHANGED loc
     ELSE /\ loc' = [loc EXCEPT ![p].listing = Rescan(store, loc[p].listing).snaps]
          /\ Goto(p, "returned")
          /\ UNCHANGED err
  /\ UNCHANGED <<procv, lockv, mtab, store, clock>>

\* Listings and backups on a store that holds the old archive or not, and two
\* directory items in every state.
InitList ==
  /\ InitProcs
  /\ \E old \in BOOLEAN, m1, m2 \in Metas :
       store = [x \in Items |->
                  IF x = <<"0", "_", "d">> THEN [meta |-> m1]
                  ELSE IF x = <<"d">> THEN [meta |-> m2]
                  ELSE IF x = OldSnap /\ ~old THEN EmptyEntry
                  ELSE InitStore(NoFile)[x]]

NextList ==
  \E p \in Procs :
    \/ StartList(p)
    \/ LList(p)
    \/ StartBackup(p, RaceBackups)
    \/ LockSteps(p)
    \/ BackupSteps(p)

SpecList == InitList /\ [][NextList]_vars

\* ------------------------------------------------------------ properties
Running(p) == pc[p] \notin {"idle", "returned", "exited"}
Returned(p) == pc[p] = "returned"
Succeeded(p) == pc[p] = "returned" /\ err[p] = ""
Issued(p, call, target) ==
  \E i \in 1..Len(log[p]) : log[p][i][2] = call /\ log[p][i][3] = target
LastCall(p) == log[p][Len(log[p])]

\* The calls that change a device or the mount table.
Mutating == {"wipefs", "parted", "mkfs", "mkfs.vfat", "mkswap", "mount", "mount--bind"}
IssuedMutating(p) == \E i \in 1..Len(log[p]) : log[p][i][2] \in Mutating

\* The states of the restore orchestrator, and the states a log went through.
Order == <<"Locate", "Verify", "Prepare", "Mount", "Extract", "Configure", "Install",
           "Teardown">>
RECURSIVE StatesOf(_)
StatesOf(l) ==
  IF l = << >> THEN << >>
  ELSE IF Len(l) > 1 /\ l[1][1] = l[2][1] THEN StatesOf(Tail(l))
  ELSE <<l[1][1]>> \o StatesOf(Tail(l))
CallsIn(l, st) == SelectSeq(l, LAMBDA c : c[1] = st)

\* C1: mutual exclusion: at most one backup or restore is between a
\* successful Lock acquire and the matching release.
C1_MutualExclusion ==
  \A p, q \in Procs : p # q => ~(entered[p] /\ entered[q])

C1_Witness ==
  \E p, q \in Procs :
    /\ op[p] = "restore" /\ entered[p] /\ flockOwner = p
    /\ op[q] = "backup" /\ err[q] = "lock_busy"

\* C2: a restore and a boot-fix are never both between their mount and their
\* umount of the shared mount point /mnt/systemback-ng-root: neither issues a
\* mount or an umount on it while the other is in that window.
InRootWindow(p) ==
  /\ Running(p) /\ pc[p] # "unlock"
  /\ Issued(p, "mount", "root") /\ ~Issued(p, "umount", "root")
  /\ LastCall(p) # <<"Mount", "mount", "root">> \/ err[p] = ""

C2_BootFixSerialized ==
  \A p, q \in Procs :
    ~(op[p] = "restore" /\ InRootWindow(p) /\ op[q] = "bootfix" /\ InRootWindow(q))

\* C3: an acquire attempt on a held lock fails at once: the process ends with
\* the error, it does not wait, does not hold the lock, and has made no call
\* after the attempt (a restore has made only the listing of Locate, which
\* precedes the attempt; a backup none).
C3_RefusedFailsAtOnce ==
  \A p \in Procs :
    err[p] = "lock_busy" =>
      /\ pc[p] = "returned"
      /\ ~entered[p] /\ flockOwner # p
      /\ \A i \in 1..Len(log[p]) : log[p][i][1] = "Locate"
      /\ op[p] = "backup" => log[p] = << >>

C3_Witness ==
  \E p, q \in Procs :
    /\ op[p] = "restore" /\ err[p] = "lock_busy" /\ pc[p] = "returned"
    /\ entered[q] /\ flockOwner = q /\ log[q] # << >>

\* C4: a backup or restore that acquired the lock has released it when it
\* returns, whichever step failed: the flock is free for the next operation
\* and the handle is closed.
PreLockErrors == {"not_root", "snapshot_not_found", "lock_busy", "lock_marker"}
C4_ReleasedOnEveryExit ==
  \A p \in Procs :
    (Returned(p) /\ err[p] \notin PreLockErrors) =>
      /\ flockOwner = NoProc
      /\ ~fd[p] /\ ~entered[p]
      /\ \A q \in Procs : FlockGranted(flockOwner, q)

C4_Witness ==
  \E p \in Procs :
    /\ Returned(p) /\ err[p] \in {"tar", "checksum", "grub-install", "mount"}
    /\ flockOwner = NoProc /\ lockFile = "locked"

\* C5: when Lock acquisition fails after the lock file was opened (flock
\* refused) or after the flock was obtained (marker write failed), the process
\* holds neither the flock nor the open handle while the error propagates.
C5_NothingHeldAfterFailedAcquire ==
  \A p \in Procs :
    (Returned(p) /\ err[p] \in {"lock_busy", "lock_marker"}) =>
      ~fd[p] /\ flockOwner # p

\* C6: every call a restore makes, from Locate to Teardown, is made while its
\* process holds the lock: a restore that has made a call and has not returned
\* is inside the lock-guarded section.
C6_RestoreUnderLock ==
  \A p \in Procs :
    (op[p] = "restore" /\ Running(p) /\ log[p] # << >>) => entered[p]

\* C7: restore goes through Locate, Verify, Prepare, Mount, Extract, Configure,
\* Install, Teardown in this order: a state is entered only from the one before
\* it (Teardown also from a failure in Extract, Configure or Install), and a
\* successful run goes through all eight, once each, and unmounts the ESP, then
\* the root.
C7_StateOrder ==
  \A p \in Procs :
    op[p] = "restore" /\ pc[p] # "exited" =>
      LET s == StatesOf(log[p]) IN
        /\ \/ s = SubSeq(Order, 1, Len(s))
           \/ \E k \in 5..7 : s = SubSeq(Order, 1, k) \o <<"Teardown">>
        /\ Succeeded(p) =>
             /\ s = Order
             /\ CallsIn(log[p], "Teardown") =
                  (IF args[p].boot = "uefi" THEN << <<"Teardown", "umount", "esp">> >>
                   ELSE << >>) \o << <<"Teardown", "umount", "root">> >>

C7_Witness ==
  \E p \in Procs :
    /\ op[p] = "restore" /\ Succeeded(p)
    /\ args[p].mode = "disk" /\ args[p].boot = "uefi" /\ args[p].swap
    /\ StatesOf(log[p]) = Order

\* C8: restore passes Verify exactly when the sidecar is absent or equals the
\* digest of the archive; a restore that fails Verify has issued no wipe,
\* partition, format or mount command, and issues none.
SidecarOk(e) == e.side = NoFile \/ (e.arch > Partial /\ e.side = Digest(e.arch))
C8_VerifyGate ==
  \A p \in Procs :
    (op[p] = "restore" /\ Issued(p, "exists", "sidecar")) =>
      /\ (err[p] # "checksum") <=> SidecarOk(store[args[p].snap])
      /\ err[p] = "checksum" => ~IssuedMutating(p) /\ pc[p] \in {"unlock", "returned"}

C8_Witness ==
  \E p \in Procs :
    /\ op[p] = "restore" /\ Returned(p) /\ err[p] = "checksum"
    /\ store[args[p].snap].side \notin {NoFile, Digest(store[args[p].snap].arch)}
    /\ ~IssuedMutating(p)

\* C9: when a restore returns after a failure in Extract, Configure or
\* Install, Teardown has run and none of the mounts it made (root, ESP, the
\* four bind mounts) is still in place.
TryErrors == {"tar", "write_fstab", "no_parent_disk", "mount--bind", "efi_mount_missing",
              "grub-install", "update-grub"}
FailedInMount(p) ==
  \/ err[p] = "efi_required"
  \/ /\ err[p] # ""
     /\ LastCall(p) \in {<<"Mount", "mkfs.vfat", "esp">>, <<"Mount", "mount", "esp">>,
                         <<"Mount", "mkswap", "swap">>}
C10_NoLeakAfterMountFailure ==
  \A p \in Procs :
    (op[p] = "restore" /\ Returned(p) /\ log[p] # << >> /\ FailedInMount(p)) =>
      MountsOf(p) = {}

\* C11: once the bootloader installer of a restore has started bind-mounting
\* and has returned (whether a later bind mount, a grub-install or the menu
\* refresh failed, or all succeeded), none of the bind mounts it made on dev,
\* proc, sys, run under the target root is still in place.
InstallerReturned(p) ==
  /\ op[p] = "restore"
  /\ Issued(p, "mount--bind", "dev")
  /\ pc[p] \in {"t_umount_esp", "t_umount_root", "unlock", "returned"}
BindsOf(p) == MountsOf(p) \cap {BindMounts[i] : i \in 1..Len(BindMounts)}
C11_BindsReleased ==
  \A p \in Procs : InstallerReturned(p) => BindsOf(p) = {}

\* C12: the error a restore or a boot-fix reports is that of its first failing
\* main step: once an error is being propagated no later step replaces it, and
\* no umount of a teardown, failing or not, sets or changes the error, so a run
\* whose main steps all succeeded is reported successful.
UmountSteps == {"g_umount", "t_umount_esp", "t_umount_root",
                "f_umount", "f_umount_esp", "f_umount_root"}
C12_FirstErrorPropagates ==
  [][\A p \in Procs :
       (op[p] \in {"restore", "bootfix"} /\ pc'[p] # "exited"
        /\ (err[p] # "" \/ pc[p] \in UmountSteps)) => err'[p] = err[p]]_vars

C12_Witness ==
  \E p, q \in Procs :
    /\ op[p] = "restore" /\ Succeeded(p) /\ loc[p].ufail
    /\ op[q] = "bootfix" /\ err[q] = "mount--bind" /\ loc[q].ufail

\* C13: a restore or boot-fix whose bootloader installation succeeded has run,
\* for uefi, exactly two grub-installs, the standard one and then the
\* removable/no-nvram one, both with the same ESP directory and boot directory;
\* for mbr exactly one, on the whole-disk device; and in both cases exactly one
\* menu refresh, after the installs and before the first umount.
Positions(l, call) == {i \in 1..Len(l) : l[i][2] = call}
InstallKinds(l) == [i \in 1..Len(SelectSeq(l, LAMBDA c : c[2] = "grub-install")) |->
                      SelectSeq(l, LAMBDA c : c[2] = "grub-install")[i][3]]
C13_InstallSequence ==
  \A p \in Procs :
    (op[p] \in {"restore", "bootfix"} /\ Succeeded(p)) =>
      /\ IF args[p].boot = "uefi"
         THEN /\ InstallKinds(log[p]) = <<"efi", "efi-removable">>
              /\ GrubInstallArgs("efi").efiDir = GrubInstallArgs("efi-removable").efiDir
              /\ GrubInstallArgs("efi").bootDir = GrubInstallArgs("efi-removable").bootDir
              /\ GrubInstallArgs("efi").flags = {}
              /\ GrubInstallArgs("efi-removable").flags = {"--removable", "--no-nvram"}
         ELSE /\ InstallKinds(log[p]) = <<"disk">>
              /\ GrubInstallArgs("disk").device = "disk"
      /\ Cardinality(Positions(log[p], "update-grub")) = 1
      /\ \A u \in Positions(log[p], "update-grub") :
           /\ \A g \in Positions(log[p], "grub-install") : g < u
           /\ \A m \in Positions(log[p], "umount") : u < m
           /\ \A b \in Positions(log[p], "mount--bind") : b < u

C13_Witness ==
  \E p \in Procs :
    /\ op[p] = "restore" /\ Succeeded(p) /\ args[p].boot = "uefi"
    /\ Cardinality(Positions(log[p], "grub-install")) = 2
    /\ Cardinality(Positions(log[p], "umount")) = 6

\* A restore onto a whole disk, the partitions whose mkpart command it has
\* issued, and whether its planner has returned.
PlanningRestore(p) == op[p] = "restore" /\ pc[p] # "exited" /\ args[p].mode = "disk"
MkpartCount(l) ==
  Cardinality({i \in 1..Len(l) :
                 l[i][2] = "parted" /\ l[i][3] \in {"mkpart ESP", "mkpart root", "mkpart swap"}})
IssuedTable(p) == SubSeq(PlanTable(args[p]), 1, MkpartCount(log[p]))
PlannerReturned(p) ==
  /\ PlanningRestore(p)
  /\ pc[p] = "r_mount_root" \/ \E i \in 1..Len(log[p]) : log[p][i][1] = "Mount"
Capacity(a) == DeviceSizeMib(a.plan.sizeBytes)
RECURSIVE SumSizes(_)
SumSizes(t) == IF t = << >> THEN 0 ELSE (Head(t).end - Head(t).start) + SumSizes(Tail(t))

\* C14: for every capacity, swap size, ESP size and boot scheme with which the
\* planner runs to its end, the partitions it asked for are ordered and
\* disjoint (each start below its end, each end the start of the next), lie
\* within [1 MiB, capacity], and their sizes together do not exceed the capacity.
C14_TableWithinDevice ==
  \A p \in Procs :
    PlannerReturned(p) =>
      LET t == IssuedTable(p) IN
        /\ \A i \in 1..Len(t) :
             /\ t[i].start < t[i].end
             /\ 1 <= t[i].start /\ t[i].end <= Capacity(args[p])
             /\ i < Len(t) => t[i].end = t[i + 1].start
        /\ SumSizes(t) <= Capacity(args[p])

\* C15: when the ESP and swap sizes leave no room for the root on the device
\* (a partition of the plan would be empty or inverted, or a boundary would lie
\* outside [1 MiB, capacity]), the planner issues no mkpart command and the
\* restore ends with an error.
NoRoom(a) ==
  \E i \in 1..Len(PlanTable(a)) :
    \/ PlanTable(a)[i].end <= PlanTable(a)[i].start
    \/ PlanTable(a)[i].start < 1
    \/ PlanTable(a)[i].end > Capacity(a)
C15_NoRoomFails ==
  \A p \in Procs :
    (PlanningRestore(p) /\ NoRoom(args[p])) =>
      /\ MkpartCount(log[p]) = 0
      /\ Returned(p) => err[p] # ""

\* C16: when the planner returns, the root is assigned, the ESP is assigned
\* exactly for uefi, the swap exactly when the swap size is above 0, and each
\* role is the partition at its place in the table (uefi: ESP 1, root 2,
\* swap 3; mbr: root 1, swap 2).
C16_RolesResolved ==
  \A p \in Procs :
    PlannerReturned(p) =>
      loc[p].roles =
        (IF args[p].boot = "uefi"
         THEN [esp |-> 1, root |-> 2, swap |-> IF args[p].plan.swapMib > 0 THEN 3 ELSE 0]
         ELSE [esp |-> 0, root |-> 1, swap |-> IF args[p].plan.swapMib > 0 THEN 2 ELSE 0])

\* C17: once the poll of the planner has ended, either all expected child
\* partitions were listed, or the planner has failed with the
\* partition-detection error (or the error of the re-read command) and has
\* formatted nothing.
PlannerFormats == {"mkfs", "mkfs.vfat", "mkswap"}
C17_AllPartsBeforeFormat ==
  \A p \in Procs :
    (PlanningRestore(p) /\ Issued(p, "lsblk", "disk") /\ pc[p] # "pd_poll") =>
      \/ loc[p].nparts = ExpectedParts(args[p])
      \/ /\ err[p] \in {"no_partitions", "partprobe"}
         /\ \A i \in 1..Len(log[p]) : log[p][i][2] \notin PlannerFormats

\* C18: after a backup has returned with a failure of archiving or of
\* checksumming, the store does not hold the archive file it was writing.
C18_NoArchiveAfterFailure ==
  \A p \in Procs :
    (op[p] = "backup" /\ Returned(p) /\ err[p] \in {"tar", "sha256sum"}) =>
      store[loc[p].name].arch = NoFile

\* C19: backup goes on to checksumming exactly when tar ended with status 0 or
\* 1; with any other status the backup fails with the error of tar and runs no
\* checksum command.
C19_TarStatus ==
  \A p \in Procs :
    (op[p] = "backup" /\ Issued(p, "tar-c", "archive")) =>
      IF loc[p].rc \in {0, 1}
      THEN /\ err[p] \in {"", "sha256sum"}
           /\ pc[p] = "b_sha" \/ Issued(p, "sha256sum", "archive")
      ELSE /\ err[p] = "tar"
           /\ ~Issued(p, "sha256sum", "archive")

C19_Witness ==
  \E p \in Procs :
    /\ op[p] = "backup" /\ Succeeded(p) /\ loc[p].rc = 1
    /\ store[loc[p].name].side = Digest(store[loc[p].name].arch)

\* C20: a backup whose snapshot directory lies under /media/ or /mnt/ and is
\* not on a mounted filesystem there is rejected: it never starts tar, and it
\* returns with the error of the guard.
C20_UnmountedTargetRejected ==
  \A p \in Procs :
    (op[p] = "backup" /\ pc[p] # "exited"
     /\ args[p].dir.under /\ ~args[p].dir.mounted) =>
      /\ ~Issued(p, "tar-c", "archive")
      /\ Returned(p) => err[p] # ""

\* C21: the label part of the name of the archive a backup creates holds only
\* characters of [a-z0-9._-] and at most 40 of them, whatever label was
\* passed; the label "Nightly Run" gives nightly_run.
AllowedChars == {"a", "g", "h", "i", "l", "n", "o", "r", "t", "u", "y", "_", ".", "-"}
C21_LabelSanitized ==
  \A p \in Procs :
    (op[p] = "backup" /\ Issued(p, "tar-c", "archive")) =>
      /\ \A i \in 1..Len(loc[p].name[2]) : loc[p].name[2][i] \in AllowedChars
      /\ Len(loc[p].name[2]) <= LabelMax
      /\ args[p].label = NightlyRun =>
           loc[p].name[2] = <<"n", "i", "g", "h", "t", "l", "y", "_", "r", "u", "n">>

\* A listing that has returned its records.
Listed(p) == op[p] = "list" /\ Succeeded(p)

\* C22: list never fails because of a directory whose metadata.json is
\* malformed; the entry is skipped and the other records are returned.
C22_MalformedMetadataSkipped ==
  \A p \in Procs : op[p] = "list" => err[p] # "json"

\* C23: the records a listing returns are those of the store at the moment of
\* the call, in the order of the item names, whatever an earlier call returned
\* and whatever was added since.
C23_ListingOfCurrentStore ==
  [][\A p \in Procs :
       (pc[p] = "l_list" /\ pc'[p] = "returned" /\ err'[p] = "")
         => /\ loc'[p].listing = ListSnapshots(store).snaps
            /\ \A x \in Items :
                 Present(store, x) <=>
                   \E i \in 1..Len(loc'[p].listing) : loc'[p].listing[i].item = ItemName(x)
            /\ \A i, j \in 1..Len(loc'[p].listing) :
                 i < j => LexLess(loc'[p].listing[i].item, loc'[p].listing[j].item)]_vars
\* A listing shows the archive a backup added and a metadata directory.
C23_Witness ==
  \E p \in Procs :
    /\ Listed(p)
    /\ \E i, j \in 1..Len(loc[p].listing) :
         /\ loc[p].listing[i].item = ItemName(<<MaxClock, << >> >>)
         /\ loc[p].listing[j].item \in DirNames

\* A backup whose latest_snapshot call has returned; it holds the lock, so the
\* store is the one the call saw.
LatestReturned(p) == op[p] = "backup" /\ pc[p] = "b_tar"
\* C24: latest returns a record of the store whose creation time is not less
\* than that of any other record, and None exactly when the store has no
\* record.
C24_LatestIsMaximal ==
  \A p \in Procs :
    LatestReturned(p) =>
      /\ loc[p].base = << >> <=> ~\E x \in Items : Present(store, x)
      /\ loc[p].base # << >> =>
           /\ \E x \in Items : Present(store, x) /\ loc[p].base[1] = SnapRecord(store, x)
           /\ \A x \in Items :
                Present(store, x) => SnapRecord(store, x).created <= loc[p].base[1].created
\* The latest record is a metadata directory newer than the archives beside it,
\* and it is not the first record of the listing.
C24_Witness ==
  \E p \in Procs :
    /\ LatestReturned(p)
    /\ loc[p].base # << >>
    /\ loc[p].base[1].item \in DirNames
    /\ \E x \in Names : Present(store, x) /\ store[x].mtime < loc[p].base[1].created
    /\ loc[p].base[1] # ListSnapshots(store).snaps[1]

\* C25: the records a listing returns have pairwise distinct ids.
C25_IdsDistinct ==
  \A p \in Procs :
    Listed(p) =>
      \A i, j \in 1..Len(loc[p].listing) :
        i # j => loc[p].listing[i].id # loc[p].listing[j].id

\* The children of the disk that classify as ESP and as root.
EspCandidates(a) ==
  {k \in 1..Len(a.children) :
     a.children[k].guid \/ a.children[k].fstype \in {"vfat", "fat32"}}
RootCandidates(a) ==
  {k \in 1..Len(a.children) : a.children[k].fstype \in {"ext4", "xfs", "btrfs"}}
\* Boot-fix has run its detection and left it.
Detected(p) == op[p] = "bootfix" /\ Issued(p, "lsblk", "disk") /\ pc[p] # "f_detect"
AmbiguityErrors == {"multiple_esp", "multiple_root"}
\* C26: with one ESP candidate and one root candidate, detection returns
\* them; with two or more candidates for a role it fails with an ambiguity
\* error; with no candidate for a role boot-fix needs it fails; in both cases
\* nothing has been mounted.
C26_Detection ==
  \A p \in Procs :
    Detected(p) /\ err[p] # "lsblk" =>
      LET E == EspCandidates(args[p])
          R == RootCandidates(args[p])
      IN /\ Cardinality(E) = 1 /\ Cardinality(R) = 1 =>
              /\ err[p] \notin AmbiguityErrors
              /\ {loc[p].auto.esp} = E
              /\ {loc[p].auto.root} = R
         /\ Cardinality(E) >= 2 \/ Cardinality(R) >= 2 =>
              /\ err[p] \in AmbiguityErrors
              /\ Returned(p)
              /\ ~Issued(p, "mount", "root")
         /\ \/ ~args[p].rootGiven /\ R = {}
            \/ args[p].boot = "uefi" /\ ~args[p].espGiven /\ E = {}
            => /\ pc[p] = "f_check" \/ (Returned(p) /\ err[p] # "")
               /\ ~Issued(p, "mount", "root")
\* Detection found the ESP in the second child and the root in the first, and
\* boot-fix went on to mount the root.
C26_Witness ==
  \E p \in Procs :
    /\ Detected(p)
    /\ loc[p].auto = [esp |-> 2, root |-> 1]
    /\ Issued(p, "mount", "root")

\* The errors that report a violated precondition of restore or boot-fix.
PreconditionErrors ==
  {"not_root", "snapshot_not_found", "disk_not_found", "not_block_device", "efi_required",
   "multiple_esp", "multiple_root", "root_not_detected", "esp_not_detected"}
\* C27: a restore or boot-fix that reports a violated precondition has issued
\* no wipefs, parted, mkfs, mkswap or mount before.
C27_PreconditionsBeforeMutation ==
  \A p \in Procs :
    op[p] \in {"restore", "bootfix"} /\ err[p] \in PreconditionErrors => ~IssuedMutating(p)

\* The snapshot n as a successful backup leaves it: the complete archive of the
\* tree at the second in its name, and the sidecar with the digest of it.
AsWritten(n) ==
  /\ store[n].arch = TreeAt(n[1])
  /\ store[n].side = Digest(store[n].arch)
\* C28: a restore of a snapshot that is in the store as a successful backup
\* wrote it finds it under its archive file name, passes Verify against the
\* sidecar, and unpacks the tree the backup archived.
C28_RoundTrip ==
  [][\A p \in Procs :
       (IF op[p] = "restore" /\ pc[p] # "exited"
        THEN args[p].snap # OldSnap /\ AsWritten(args[p].snap) ELSE FALSE) =>
         /\ pc[p] = "r_find" /\ pc'[p] # "r_find" => pc'[p] = "lock" /\ err'[p] = ""
         /\ pc[p] = "r_verify" /\ pc'[p] # "r_verify" =>
              /\ pc'[p] = AfterVerify(args[p]) /\ err'[p] = ""
              /\ log'[p][Len(log'[p])] = <<"Verify", "sha256sum-c", "sidecar">>
         /\ pc[p] = "r_extract" /\ pc'[p] = "r_fstab" =>
              loc'[p].tree = TreeAt(args[p].snap[1])]_vars
\* A restore of the snapshot a backup wrote has completed with its tree.
C28_Witness ==
  \E p \in Procs :
    /\ op[p] = "restore" /\ Succeeded(p)
    /\ args[p].snap = <<MaxClock, << >> >>
    /\ AsWritten(args[p].snap)
    /\ Issued(p, "sha256sum-c", "sidecar")
    /\ loc[p].tree = TreeAt(MaxClock)

\* A restore that has written /etc/fstab.
FstabWritten(p) == op[p] = "restore" /\ pc[p] # "exited" /\ loc[p].fstab # << >>
\* The roles that must have a line: root, the ESP for uefi, the swap partition
\* when one was initialised.
ExpectedRoles(p) ==
  <<"root">> \o (IF args[p].boot = "uefi" THEN <<"esp">> ELSE << >>)
             \o (IF \E i \in 1..Len(log[p]) : log[p][i][2] = "mkswap"
                 THEN <<"swap">> ELSE << >>)
\* The lines of fstab are those of the expected roles, in order.
FstabShape(p) == [i \in 1..Len(loc[p].fstab) |-> loc[p].fstab[i].role] = ExpectedRoles(p)
\* C29: fstab has one root line, an ESP line exactly for uefi and a swap line
\* exactly when a swap partition is in use, in that order, and every line is
\* keyed by the UUID of the device restore holds for that role.
C29_Fstab ==
  \A p \in Procs :
    FstabWritten(p) =>
      /\ FstabShape(p)
      /\ \A i \in 1..Len(loc[p].fstab) :
           loc[p].fstab[i].key = Uuid(DeviceOf(args[p], loc[p], loc[p].fstab[i].role))

\* The commands that wipe, partition, format, initialise swap or extract.
Destructive == {"wipefs", "parted", "mkfs", "mkfs.vfat", "mkswap", "tar-x"}
\* C30: when boot-fix returns, after success or after a failure at any step,
\* none of its bind mounts, its ESP mount or its root mount is left; and it
\* issues no wipe, partition, format, swap-init or extract command.
C30_BootFixReleasesAll ==
  \A p \in Procs :
    op[p] = "bootfix" =>
      /\ Returned(p) => MountsOf(p) = {}
      /\ \A i \in 1..Len(log[p]) : log[p][i][2] \notin Destructive

\* c is the byte size divided by 2^20, rounded down.
IsWholeMiB(c, bytes) == c * MiB <= bytes /\ bytes - c * MiB < MiB
\* The entry of a role in a table, as a set (empty when the role has none).
EntriesOf(t, role) == {t[i] : i \in {j \in 1..Len(t) : t[j].role = role}}
\* C31: the partitions the planner has asked for are those of the reference
\* layout: uefi gives ESP [1, 1 + esp_mib) and root from there; mbr gives root
\* from 1; the root ends 1 MiB (plus the swap size, with swap) before the
\* capacity, the swap runs from the end of the root to the capacity, and the
\* capacity is the byte size of the device in whole MiB, rounded down.
C31_ReferenceLayout ==
  \A p \in Procs :
    PlanningRestore(p) =>
      LET t == IssuedTable(p)
          a == args[p]
          reserve == IF a.plan.swapMib > 0 THEN a.plan.swapMib + 1 ELSE 1
      IN /\ [i \in 1..Len(t) |-> t[i].role] =
              SubSeq((IF a.boot = "uefi" THEN <<"esp">> ELSE << >>) \o <<"root">>
                       \o (IF a.plan.swapMib > 0 THEN <<"swap">> ELSE << >>), 1, Len(t))
         /\ \A e \in EntriesOf(t, "esp") : e.start = 1 /\ e.end = 1 + a.plan.espMib
         /\ \A r \in EntriesOf(t, "root") :
              /\ r.start = (IF a.boot = "uefi" THEN 1 + a.plan.espMib ELSE 1)
              /\ IsWholeMiB(r.end + reserve, a.plan.sizeBytes)
              /\ \A w \in EntriesOf(t, "swap") :
                   w.start = r.end /\ w.end = r.end + reserve
\* A planner has returned after a uefi table with swap on a device whose size
\* is not a whole number of MiB.
C31_Witness ==
  \E p \in Procs :
    /\ PlannerReturned(p)
    /\ args[p].boot = "uefi" /\ args[p].plan.swapMib = 200
    /\ args[p].plan.sizeBytes = 600 * MiB + 4096
    /\ Len(IssuedTable(p)) = 3

\* The listings of child partitions a planner has made.
Listings(l) == {i \in 1..Len(l) : l[i] = <<"Prepare", "lsblk", "disk">>}
\* The planner makes at most PollMax listings, re-reads the partition table
\* between two of them, and leaves the poll without a partition only with the
\* partition-detection failure (or the failure of the re-read).
PollBounded ==
  \A p \in Procs :
    PlanningRestore(p) =>
      /\ Cardinality(Listings(log[p])) <= PollMax
      /\ \A i \in Listings(log[p]) :
           i + 1 \in 1..Len(log[p]) /\ loc[p].nparts = 0 =>
             log[p][i + 1] = <<"Prepare", "partprobe", "disk">>
      /\ Listings(log[p]) # {} /\ pc[p] # "pd_poll" /\ loc[p].nparts = 0 =>
           \/ err[p] = "partprobe"
           \/ err[p] = "no_partitions" /\ Cardinality(Listings(log[p])) = PollMax
PollEnds == \A p \in Procs : pc[p] = "pd_poll" ~> pc[p] # "pd_poll"
\* C32: partition detection always terminates: at most 10 polls with a re-read
\* of the device between them, then the partition-detection failure.
C32_PollTerminates == []PollBounded /\ PollEnds
\* A planner has given up after PollMax empty listings.
C32_Witness ==
  \E p \in Procs :
    /\ PlanningRestore(p)
    /\ err[p] = "no_partitions"
    /\ Cardinality(Listings(log[p])) = PollMax

\* How often a restore has issued the command c on target t, in any state and
\* in the state st.
Times(l, c, t) == Cardinality({i \in 1..Len(l) : l[i][2] = c /\ l[i][3] = t})
TimesIn(l, st, c, t) == Cardinality({i \in 1..Len(l) : l[i] = <<st, c, t>>})
\* C33: in a restore onto a whole disk the root, the ESP and the swap
\* partition are each formatted at most once (exactly once when the restore
\* has succeeded): root and ESP by the planner, which issues no mkswap, and
\* the swap by the orchestrator, which issues no mkfs.
C33_FormattedOnce ==
  \A p \in Procs :
    PlanningRestore(p) =>
      /\ Times(log[p], "mkfs", "root") <= 1
      /\ Times(log[p], "mkfs.vfat", "esp") <= 1
      /\ Times(log[p], "mkswap", "swap") <= 1
      /\ TimesIn(log[p], "Prepare", "mkswap", "swap") = 0
      /\ TimesIn(log[p], "Mount", "mkfs.vfat", "esp") = 0
      /\ TimesIn(log[p], "Mount", "mkfs", "root") = 0
      /\ Succeeded(p) =>
           /\ Times(log[p], "mkfs", "root") = 1
           /\ args[p].boot = "uefi" => Times(log[p], "mkfs.vfat", "esp") = 1
           /\ loc[p].swap => Times(log[p], "mkswap", "swap") = 1

\* The mount points a run has issued an umount for, in order.
Unmounted(l) ==
  [i \in 1..Len(SelectSeq(l, LAMBDA c : c[2] = "umount")) |->
     SelectSeq(l, LAMBDA c : c[2] = "umount")[i][3]]
\* A sequence in reverse.
Reversed(q) == [i \in 1..Len(q) |-> q[Len(q) + 1 - i]]
\* The order of the teardown apart from the order among the bind mounts: no
\* umount follows that of the root, and only that of the root follows that of
\* the ESP.
BindsThenEspThenRoot(u) ==
  \A i, j \in 1..Len(u) :
    i < j => u[i] # "root" /\ (u[i] = "esp" => u[j] = "root")
\* C34: the bind mounts are unmounted in the reverse of the order in which
\* they were mounted (run, sys, proc, dev), all of them before the ESP, and
\* the ESP before the root.
C34_ReverseUnmount ==
  \A p \in Procs :
    (op[p] \in {"restore", "bootfix"} /\ pc[p] # "exited") =>
      LET u == Unmounted(log[p])
          binds == SelectSeq(u, LAMBDA m : m \notin {"esp", "root"})
      IN /\ binds = SubSeq(Reversed(BindMounts), 1, Len(binds))
         /\ BindsThenEspThenRoot(u)

\* The commands of the installer body in a run: bind mounts, installs, menu
\* refresh and umounts of the bind mounts, as <<command, target>>.
BodyCalls(l) ==
  LET body == SelectSeq(l, LAMBDA c :
                \/ c[2] \in {"mount--bind", "grub-install", "update-grub"}
                \/ c[2] = "umount" /\ c[3] \notin {"esp", "root"})
  IN [i \in 1..Len(body) |-> <<body[i][2], body[i][3]>>]
\* The same without the umounts: the steps up to the one that failed.
MainCalls(l) == SelectSeq(BodyCalls(l), LAMBDA c : c[1] # "umount")
\* The installer body of a run is over.
BodyOver(p) ==
  \/ InstallerReturned(p)
  \/ op[p] = "bootfix" /\ Issued(p, "mount--bind", "dev")
       /\ pc[p] \in {"f_umount_esp", "f_umount_root", "returned"}
\* C35: a restore and a boot-fix with the same boot scheme whose installer
\* bodies ran the same steps with the same outcome (all succeeded, or the same
\* step failed) issued the same commands, and neither has left a bind mount.
C35_SameInstaller ==
  \A p, q \in Procs :
    (/\ op[p] = "restore" /\ op[q] = "bootfix"
     /\ BodyOver(p) /\ BodyOver(q)
     /\ args[p].boot = args[q].boot
     /\ MainCalls(log[p]) = MainCalls(log[q])
     /\ (err[p] = "") = (err[q] = "")) =>
      /\ BodyCalls(log[p]) = BodyCalls(log[q])
      /\ BindsOf(p) = {} /\ BindsOf(q) = {}

\* The snapshot n of a completed backup: a whole archive and the sidecar with
\* its digest.
Completed(n) == store[n].arch > Partial /\ store[n].side = Digest(store[n].arch)
\* C36: no step of a later backup changes the archive of a completed backup.
C36_SnapshotImmutable ==
  [][\A n \in Names : Completed(n) => store'[n].arch = store[n].arch]_vars

\* C37: while a process holds the lock, the lock file holds its marker,
\* whatever attempts of other processes fail in between.
C37_MarkerKept ==
  \A p \in Procs : (flockOwner = p /\ entered[p]) => lockFile = "locked"

\* No backup is under way.
NoBackupRunning == \A p \in Procs : op[p] = "backup" => pc[p] \in {"returned", "exited"}
\* C38: when no backup is under way, every sidecar in the store has its
\* archive in the store, and is the digest of an archive.
C38_NoOrphanSidecar ==
  NoBackupRunning =>
    \A n \in Names :
      store[n].side # NoFile => store[n].arch # NoFile /\ store[n].side # Partial

\* Boot-fix has ended with an ambiguity error of the detection.
AmbiguityFailure(p) == op[p] = "bootfix" /\ Returned(p) /\ err[p] \in AmbiguityErrors
\* C39: boot-fix fails with an ambiguity error only for a role it has to
\* detect: not with several root candidates when the root partition is given,
\* and not with several ESP candidates in mbr mode or when the ESP is given.
C39_AmbiguityOnlyWhenDetecting ==
  \A p \in Procs :
    AmbiguityFailure(p) =>
      /\ err[p] = "multiple_root" => ~args[p].rootGiven
      /\ err[p] = "multiple_esp" => args[p].boot = "uefi" /\ ~args[p].espGiven


====
